---------------------------- MODULE Spec2Model ----------------------------
(***************************************************************************)
(* Winner-take-all layer of LIF neurons (wtanet).                          *)
(*                                                                         *)
(* process.py declares the layer (ports, variables, defaults); models.py   *)
(* builds it from three Dense pathways (input, excitatory, inhibitory)     *)
(* around one LIF population and wires them into a feedback loop.  The     *)
(* Dense and LIF processes themselves belong to the host framework; their  *)
(* per-step arithmetic is taken from sections 4.2 - 4.4 of the             *)
(* specification.                                                          *)
(*                                                                         *)
(* A weight specification is a record [kind, val]: kind is "none" (option  *)
(* omitted), "scalar", "vec" (1-D) or "mat" (2-D numpy array); val is      *)
(* always a sequence of rows (a scalar x is <<<<x>>>>, a 1-D array one     *)
(* row).  A scalar option is a record [set, val].                          *)
(***************************************************************************)
EXTENDS Integers, Sequences, FiniteSets, TLC

VARIABLES
    kwargs,     \* the options WTALayer(**kwargs) was called with
    proc,       \* what WTALayer.__init__ declared: ports and variables
    pc,         \* "declared" (process built) or "built" (sub-model built)
    dense,      \* input pathway:      [weights, num_message_bits, nmb_given]
    dense_exc,  \* excitatory pathway: [weights, nmb_given]
    dense_inh,  \* inhibitory pathway: [weights, nmb_given]
    lif,        \* population: [du, dv, vth, u, v, s]; s = spikes of the last step
    s_in,       \* spike vector received on the layer's input port this step
    s_out,      \* spike vector emitted on the layer's output port this step
    a_in,       \* currents delivered to the population this step: [ext, exc, inh]
    t,          \* number of steps run
    ref,        \* a standalone LIF unit fed by the input pathway only: [u, v, s]
    quiet       \* per neuron, the number of steps since it last spiked

vars == <<kwargs, proc, pc, dense, dense_exc, dense_inh, lif, s_in, s_out,
          a_in, t, ref, quiet>>

---------------------------------------------------------------------------
(* Bounds of the model *)

MaxN == 2
MaxT == 3
MaxCur == 6
WtaSteps == 24
BuildSteps == 1

(* Program constants *)

DefaultInpDeclared == 0
DefaultInpBuilt == 1
DefaultExc == 5
DefaultInh == -5
DefaultDu == 4095
DefaultDv == 0
DefaultVth == 10
DefaultBits == 1
WtaN == 5
DecayScale == 4096

---------------------------------------------------------------------------
(* Vectors and matrices *)

Zeros(n) == [i \in 1..n |-> 0]

AllOnes(n) == [i \in 1..n |-> 1]

Rows(M) == Len(M)

Cols(M) == IF Len(M) = 0 THEN 0 ELSE Len(M[1])

ShapeOf(M) == <<Rows(M), Cols(M)>>

Eye(n) == [i \in 1..n |-> [j \in 1..n |-> IF i = j THEN 1 ELSE 0]]

Ones(n) == [i \in 1..n |-> [j \in 1..n |-> 1]]

MatSub(A, B) == [i \in 1..Rows(A) |-> [j \in 1..Cols(A) |-> A[i][j] - B[i][j]]]

\* numpy's M * w for a scalar or a 1-D array w: a 1-D array is broadcast
\* along the rows, so that entry (i, j) is multiplied by w[j].
MulBroadcast(M, w) ==
    [i \in 1..Rows(M) |-> [j \in 1..Cols(M) |->
        IF w.kind = "scalar" THEN M[i][j] * w.val[1][1]
                             ELSE M[i][j] * w.val[1][j]]]

RECURSIVE Dot(_, _, _)
Dot(row, x, n) == IF n = 0 THEN 0 ELSE row[n] * x[n] + Dot(row, x, n - 1)

MatVec(W, x) == [i \in 1..Rows(W) |-> Dot(W[i], x, Cols(W))]

VecAdd(x, y) == [i \in 1..Len(x) |-> x[i] + y[i]]

---------------------------------------------------------------------------
(* Options *)

Omitted == [kind |-> "none", val |-> <<>>]

Scalar(x) == [kind |-> "scalar", val |-> <<<<x>>>>]

Vec(xs) == [kind |-> "vec", val |-> <<xs>>]

Mat(rows) == [kind |-> "mat", val |-> rows]

NotGiven == [set |-> FALSE, val |-> 0]

Given(x) == [set |-> TRUE, val |-> x]

\* kwargs.get(key, default) / proc_params.get(key, default)
GetW(opt, default) == IF opt.kind = "none" THEN Scalar(default) ELSE opt

GetOr(opt, default) == IF opt.set THEN opt.val ELSE default

---------------------------------------------------------------------------
(* WTALayer.__init__ (process.py): ports and variables of the layer *)

GetShape(opt) == IF opt.set THEN opt.val ELSE <<1, 1>>

Var(shape, init) == [shape |-> shape, init |-> init]

Declare(kw) ==
    LET shape == GetShape(kw.shape) IN
    [ s_in             |-> shape[2],
      s_out            |-> shape[1],
      u                |-> Var(<<shape[1]>>, 0),
      v                |-> Var(<<shape[1]>>, 0),
      du               |-> Var(<<1>>, GetOr(kw.du, DefaultDu)),
      dv               |-> Var(<<1>>, GetOr(kw.dv, DefaultDv)),
      vth              |-> Var(<<1>>, GetOr(kw.vth, DefaultVth)),
      inp_weights      |-> Var(shape, GetW(kw.inp_weights, DefaultInpDeclared)),
      exc_weights      |-> Var(shape, GetW(kw.exc_weights, DefaultExc)),
      inh_weights      |-> Var(shape, GetW(kw.inh_weights, DefaultInh)),
      num_message_bits |-> Var(<<1>>, GetOr(kw.num_message_bits, DefaultBits)) ]

---------------------------------------------------------------------------
(* SubWTALayerModel.__init__ (models.py): weights, components, wiring *)

\* BuildDiag without the identity: every cell is weighted.
BuildDiagFull(w, n) ==
    IF w.kind = "mat" THEN w.val ELSE MulBroadcast(Ones(n), w)

\* 2-D arrays are used as they are; anything else scales the identity.
BuildDiag(w, n) ==
    IF w.kind = "mat" THEN w.val ELSE MulBroadcast(Eye(n), w)

\* BuildZeroDiag without the identity subtracted: the diagonal is weighted too.
BuildZeroDiagFull(w, n) ==
    IF w.kind = "mat" THEN w.val ELSE MulBroadcast(Ones(n), w)

\* 2-D arrays are used as they are; anything else scales ones - identity.
BuildZeroDiag(w, n) ==
    IF w.kind = "mat" THEN w.val
                      ELSE MulBroadcast(MatSub(Ones(n), Eye(n)), w)

BuildInp(kw) ==
    BuildDiag(GetW(kw.inp_weights, DefaultInpBuilt), GetShape(kw.shape)[1])

BuildExc(kw) ==
    BuildDiag(GetW(kw.exc_weights, DefaultExc), GetShape(kw.shape)[1])

BuildInh(kw) ==
    BuildZeroDiag(GetW(kw.inh_weights, DefaultInh), GetShape(kw.shape)[1])

\* LifDu with the voltage decay handed over as the current decay.
LifDuFromDv(kw) == GetOr(kw.dv, DefaultDv)

\* The decay constants and the threshold handed to LIF(...).
LifDu(kw) == GetOr(kw.du, DefaultDu)

LifDv(kw) == GetOr(kw.dv, DefaultDv)

LifVth(kw) == GetOr(kw.vth, DefaultVth)

NewLif(kw) ==
    LET n == GetShape(kw.shape)[1] IN
    [du |-> LifDu(kw), dv |-> LifDv(kw), vth |-> LifVth(kw),
     u |-> Zeros(n), v |-> Zeros(n), s |-> Zeros(n)]

NewDense(kw) ==
    [weights          |-> BuildInp(kw),
     num_message_bits |-> GetOr(kw.num_message_bits, DefaultBits),
     nmb_given        |-> TRUE]

NewDenseExc(kw) == [weights |-> BuildExc(kw), nmb_given |-> FALSE]

NewDenseInh(kw) == [weights |-> BuildInh(kw), nmb_given |-> FALSE]

\* The connections: which signal drives each port.
DenseSIn(layer_s_in, lif_s) == layer_s_in

\* ExcSIn with the excitatory pathway connected to the layer's input port.
ExcSInFromInput(layer_s_in, lif_s) == layer_s_in

ExcSIn(layer_s_in, lif_s) == lif_s

InhSIn(layer_s_in, lif_s) == lif_s

LifAIn(a_dense, a_exc, a_inh) == VecAdd(VecAdd(a_dense, a_exc), a_inh)

\* ProcSOut with the output port connected to the input pathway's current.
ProcSOutFromDense(lif_s, a_dense) == a_dense

ProcSOut(lif_s, a_dense) == lif_s

\* Ports can only be connected when their widths agree.
Runnable ==
    LET n == proc.s_out IN
    /\ Cols(dense.weights) = proc.s_in
    /\ Rows(dense.weights) = n
    /\ ShapeOf(dense_exc.weights) = <<n, n>>
    /\ ShapeOf(dense_inh.weights) = <<n, n>>

---------------------------------------------------------------------------
(* One timestep of the host framework's Dense and LIF processes *)

RECURSIVE Pow2(_)
Pow2(k) == IF k = 0 THEN 1 ELSE 2 * Pow2(k - 1)

\* A spike vector truncated to k message bits.
Quantize(s, k) == [i \in 1..Len(s) |-> s[i] % Pow2(k)]

Propagate(weights, spikes) == MatVec(weights, spikes)

Decay(x, d) == (x * (DecayScale - d)) \div DecayScale

\* Current, voltage before the spike decision, and spike of neuron i.
NextU(l, a, i) == Decay(l.u[i], l.du) + a[i]

NextV(l, a, i) == Decay(l.v[i], l.dv) + NextU(l, a, i)

Spikes(l, a, i) == NextV(l, a, i) >= l.vth

LifStep(l, a) ==
    LET n == Len(l.u) IN
    [l EXCEPT !.u = [i \in 1..n |-> NextU(l, a, i)],
              !.v = [i \in 1..n |-> IF Spikes(l, a, i)
                                       THEN NextV(l, a, i) - l.vth
                                       ELSE NextV(l, a, i)],
              !.s = [i \in 1..n |-> IF Spikes(l, a, i) THEN 1 ELSE 0]]

---------------------------------------------------------------------------
(* Actions *)

NoDense == [weights |-> <<>>, num_message_bits |-> 0, nmb_given |-> FALSE]

NoPath == [weights |-> <<>>, nmb_given |-> FALSE]

NoLif == [du |-> 0, dv |-> 0, vth |-> 0, u |-> <<>>, v |-> <<>>, s |-> <<>>]

NoCurrent == [ext |-> <<>>, exc |-> <<>>, inh |-> <<>>]

\* The state once WTALayer(**kw) has returned.
Declared(kw) ==
    /\ kwargs = kw
    /\ proc = Declare(kw)
    /\ pc = "declared"
    /\ dense = NoDense
    /\ dense_exc = NoPath
    /\ dense_inh = NoPath
    /\ lif = NoLif
    /\ s_in = <<>>
    /\ s_out = <<>>
    /\ a_in = NoCurrent
    /\ t = 0
    /\ ref = NoLif
    /\ quiet = <<>>

\* The host framework builds the sub-model of the declared process.
Build ==
    /\ pc = "declared"
    /\ pc' = "built"
    /\ dense' = NewDense(kwargs)
    /\ dense_exc' = NewDenseExc(kwargs)
    /\ dense_inh' = NewDenseInh(kwargs)
    /\ lif' = NewLif(kwargs)
    /\ ref' = NewLif(kwargs)
    /\ s_in' = Zeros(proc.s_in)
    /\ s_out' = Zeros(proc.s_out)
    /\ a_in' = [ext |-> Zeros(proc.s_out), exc |-> Zeros(proc.s_out),
                inh |-> Zeros(proc.s_out)]
    /\ quiet' = Zeros(proc.s_out)
    /\ UNCHANGED <<kwargs, proc, t>>

\* One timestep with the spike vector s on the input port.
Step(s, horizon) ==
    /\ pc = "built"
    /\ Runnable
    /\ t < horizon
    /\ a_in' = [ext |-> Propagate(dense.weights,
                            Quantize(DenseSIn(s, lif.s), dense.num_message_bits)),
                exc |-> Propagate(dense_exc.weights, ExcSIn(s, lif.s)),
                inh |-> Propagate(dense_inh.weights, InhSIn(s, lif.s))]
    /\ lif' = LifStep(lif, LifAIn(a_in'.ext, a_in'.exc, a_in'.inh))
    /\ s_out' = ProcSOut(lif'.s, a_in'.ext)
    /\ ref' = LifStep(ref, a_in'.ext)
    /\ quiet' = [i \in 1..Len(quiet) |->
                    IF lif'.s[i] = 1 THEN 0 ELSE quiet[i] + 1]
    /\ s_in' = s
    /\ t' = t + 1
    /\ UNCHANGED <<kwargs, proc, pc, dense, dense_exc, dense_inh>>

\* Spike vectors of width n with k message bits: silence, a single spike of
\* the smallest or the largest magnitude, or a spike on every line.
OneHot(n, i, x) == [j \in 1..n |-> IF j = i THEN x ELSE 0]

Inputs(n, k) ==
    {Zeros(n), AllOnes(n)}
        \cup {OneHot(n, i, x) : i \in 1..n, x \in {1, Pow2(k) - 1}}

StepAny(horizon) ==
    \E s \in Inputs(proc.s_in, dense.num_message_bits) : Step(s, horizon)

---------------------------------------------------------------------------
(* Layers under test *)

NoShape == [set |-> FALSE, val |-> <<0, 0>>]

Const(r, c, x) == [i \in 1..r |-> [j \in 1..c |-> x]]

\* Square layers with scalar weights and varied neuron parameters.
DynKwargs ==
    { [shape |-> Given(<<n, n>>), inp_weights |-> iw, exc_weights |-> ew,
       inh_weights |-> Omitted, du |-> d, dv |-> e, vth |-> th,
       num_message_bits |-> b] :
        n \in 1..MaxN,
        iw \in {Omitted, Scalar(2)},
        ew \in {Omitted, Scalar(0)},
        d \in {NotGiven, Given(0), Given(2048)},
        e \in {NotGiven, Given(2048)},
        th \in {NotGiven, Given(1)},
        b \in {NotGiven, Given(2)} }

\* Layers of every shape with every kind of weight specification; a 1-D
\* specification has one entry per neuron, a 2-D one has the layer's shape
\* or one row or column too many.
InpSpecs(sh) ==
    {Omitted, Scalar(2), Vec([i \in 1..sh[1] |-> i + 1]),
     Mat(Const(sh[1], sh[2], 1)), Mat(Const(sh[1] + 1, sh[2], 1))}

ExcSpecs(sh) ==
    {Omitted, Scalar(3), Vec([i \in 1..sh[1] |-> i]),
     Mat(Const(sh[1], sh[1], 1)), Mat(Const(sh[1], sh[1] + 1, 1))}

InhSpecs(sh) ==
    {Omitted, Scalar(-2), Vec([i \in 1..sh[1] |-> -i]),
     Mat(Const(sh[1], sh[1], -1)), Mat(Const(sh[1] + 1, sh[1] + 1, -1))}

BuildKwargs ==
    { [shape |-> sh, inp_weights |-> iw, exc_weights |-> ew,
       inh_weights |-> hw, du |-> NotGiven, dv |-> NotGiven, vth |-> th,
       num_message_bits |-> b] :
        sh \in {NoShape} \cup {Given(<<a, c>>) : a \in 1..MaxN, c \in 1..MaxN},
        th \in {NotGiven, Given(1)},
        b \in {NotGiven, Given(2)},
        iw \in UNION {InpSpecs(<<a, c>>) : a \in 1..MaxN, c \in 1..MaxN},
        ew \in UNION {ExcSpecs(<<a, c>>) : a \in 1..MaxN, c \in 1..MaxN},
        hw \in UNION {InhSpecs(<<a, c>>) : a \in 1..MaxN, c \in 1..MaxN} }

\* A 1-D weight specification has one entry per neuron.
VecFits(kw) ==
    \A w \in {kw.inp_weights, kw.exc_weights, kw.inh_weights} :
        w.kind = "vec" => Len(w.val[1]) = GetShape(kw.shape)[1]

\* The layer of the class's example: 5 neurons, threshold 10, excitation 5,
\* inhibition -5, with input weight c[i] on line i and a spike on every
\* input line at every step, so that neuron i receives the current c[i].
Winner == 2 + 1

WtaCurrents ==
    {c \in [1..WtaN -> 0..MaxCur] :
        \A j \in 1..WtaN : j # Winner => c[j] < c[Winner]}

WtaKwargs(c) ==
    [shape |-> Given(<<WtaN, WtaN>>), inp_weights |-> Vec(c),
     exc_weights |-> Scalar(5), inh_weights |-> Scalar(-5),
     du |-> NotGiven, dv |-> NotGiven, vth |-> Given(10),
     num_message_bits |-> NotGiven]

---------------------------------------------------------------------------
(* Specifications *)

Init == \E kw \in DynKwargs : Declared(kw)

Next == Build \/ StepAny(MaxT)

Spec == Init /\ [][Next]_vars

InitBuild == \E kw \in BuildKwargs : VecFits(kw) /\ Declared(kw)

NextBuild == Build \/ StepAny(BuildSteps)

SpecBuild == InitBuild /\ [][NextBuild]_vars

InitWTA == \E c \in WtaCurrents : Declared(WtaKwargs(c))

StepWTA == Step(AllOnes(WtaN), WtaSteps)

NextWTA == Build \/ StepWTA

SpecWTA == InitWTA /\ [][NextWTA]_vars

---------------------------------------------------------------------------
(* Properties of the construction, under SpecBuild *)

N == proc.s_out

NIn == proc.s_in

Entry(w, i) == IF w.kind = "scalar" THEN w.val[1][1] ELSE w.val[1][i]

IsDiagOf(M, w) ==
    /\ ShapeOf(M) = <<N, N>>
    /\ \A i, j \in 1..N : M[i][j] = IF i = j THEN Entry(w, i) ELSE 0

IsUniformOffDiag(M, x) ==
    /\ ShapeOf(M) = <<N, N>>
    /\ \A i, j \in 1..N : M[i][j] = IF i = j THEN 0 ELSE x

\* C3: a scalar or 1-D input or excitatory weight specification w is built
\* into the matrix with w (or w[i]) at (i, i) and 0 everywhere else.
C3_DiagonalConstruction ==
    pc = "built" =>
        /\ kwargs.inp_weights.kind \in {"scalar", "vec"}
              => IsDiagOf(dense.weights, kwargs.inp_weights)
        /\ kwargs.exc_weights.kind \in {"scalar", "vec"}
              => IsDiagOf(dense_exc.weights, kwargs.exc_weights)

C3_Witness ==
    /\ pc = "built"
    /\ N = 2
    /\ kwargs.inp_weights.kind = "vec"
    /\ kwargs.exc_weights.kind = "scalar"
    /\ dense.weights = <<<<2, 0>>, <<0, 3>>>>
    /\ dense_exc.weights = <<<<3, 0>>, <<0, 3>>>>

\* C4: a scalar inhibitory weight w is built into the N x N matrix with w in
\* every off-diagonal cell and 0 on the diagonal, for every N >= 1.
C4_UniformInhibition ==
    (pc = "built" /\ kwargs.inh_weights.kind = "scalar") =>
        IsUniformOffDiag(dense_inh.weights, kwargs.inh_weights.val[1][1])

C4_Witness ==
    /\ pc = "built"
    /\ kwargs.inh_weights.kind = "scalar"
    /\ dense_inh.weights = <<<<0, -2>>, <<-2, 0>>>>

Mismatched(kw) ==
    \E w \in {kw.inp_weights, kw.exc_weights, kw.inh_weights} :
        w.kind = "mat" /\ ShapeOf(w.val) # GetShape(kw.shape)

\* C5: a 2-D weight matrix whose shape differs from the declared layer shape
\* makes the construction fail: no layer is built from it.
C5_ShapeMismatchRejected == Mismatched(kwargs) => pc # "built"

NoMatrixGiven(kw) ==
    \A w \in {kw.inp_weights, kw.exc_weights, kw.inh_weights} : w.kind # "mat"

\* C6: for scalar and 1-D weight specifications the built input matrix is
\* N_out x N_in, the excitatory and inhibitory matrices are N_out x N_out,
\* and these are the shapes of the declared weight variables.
C6_MatrixShapes ==
    (pc = "built" /\ NoMatrixGiven(kwargs)) =>
        /\ ShapeOf(dense.weights) = <<N, NIn>>
        /\ ShapeOf(dense_exc.weights) = <<N, N>>
        /\ ShapeOf(dense_inh.weights) = <<N, N>>
        /\ ShapeOf(dense.weights) = proc.inp_weights.shape
        /\ ShapeOf(dense_exc.weights) = proc.exc_weights.shape
        /\ ShapeOf(dense_inh.weights) = proc.inh_weights.shape

\* C7: an omitted option runs with its documented default (inp_weights 0,
\* exc_weights 5, inh_weights -5, du 4095, dv 0, vth 10, num_message_bits
\* 1), which is also the initial value of the declared variable.
C7_DocumentedDefaults ==
    pc = "built" =>
        /\ kwargs.inp_weights.kind = "none" =>
              /\ dense.weights = Const(N, N, 0)
              /\ proc.inp_weights.init = Scalar(0)
        /\ kwargs.exc_weights.kind = "none" =>
              /\ IsDiagOf(dense_exc.weights, Scalar(5))
              /\ proc.exc_weights.init = Scalar(5)
        /\ kwargs.inh_weights.kind = "none" =>
              /\ IsUniformOffDiag(dense_inh.weights, -5)
              /\ proc.inh_weights.init = Scalar(-5)
        /\ ~kwargs.du.set => lif.du = 4095 /\ proc.du.init = 4095
        /\ ~kwargs.dv.set => lif.dv = 0 /\ proc.dv.init = 0
        /\ ~kwargs.vth.set => lif.vth = 10 /\ proc.vth.init = 10
        /\ ~kwargs.num_message_bits.set =>
              /\ dense.num_message_bits = 1
              /\ proc.num_message_bits.init = 1

---------------------------------------------------------------------------
(* Properties of the dynamics, under Spec *)

\* The current delivered to neuron i in the step just taken.
Total(a, i) == a.ext[i] + a.exc[i] + a.inh[i]

Abs(x) == IF x < 0 THEN -x ELSE x

\* C1: the excitatory and inhibitory currents of a step are computed from the
\* spikes of the step before (none at the first step), whatever arrives on
\* the input port in the step itself.
C1_CausalFeedback ==
    [][t' = t + 1 =>
          /\ a_in'.exc = MatVec(dense_exc.weights, lif.s)
          /\ a_in'.inh = MatVec(dense_inh.weights, lif.s)
          /\ t = 0 => a_in'.exc = Zeros(N) /\ a_in'.inh = Zeros(N)]_vars

\* A neuron spikes in the first step on an input spike and no feedback
\* current flows in that step.
C1_Witness ==
    /\ t = 1
    /\ \E i \in 1..N : s_in[i] = 1 /\ lif.s[i] = 1
    /\ dense_exc.weights # Const(N, N, 0)
    /\ a_in.exc = Zeros(N)
    /\ a_in.inh = Zeros(N)

SameAsStandalone == lif.u = ref.u /\ lif.v = ref.v /\ lif.s = ref.s

\* C8 as stated: a single-neuron layer produces the u, v and spikes of a
\* standalone LIF unit driven by the same input.
C8_SingleNeuronReduction ==
    (pc = "built" /\ N = 1 /\ NIn = 1) => SameAsStandalone

\* C8 as amended: it does so when its excitatory weight is 0 and its
\* inhibitory weights are not given as a 2-D matrix.
C8_SingleNeuronNoExcitation ==
    (/\ pc = "built" /\ N = 1 /\ NIn = 1
     /\ kwargs.exc_weights = Scalar(0)
     /\ kwargs.inh_weights.kind # "mat") => SameAsStandalone

\* The single neuron has spiked in an earlier step and has run on since.
C8_Witness ==
    /\ pc = "built" /\ N = 1 /\ NIn = 1
    /\ kwargs.exc_weights = Scalar(0)
    /\ t >= 2
    /\ quiet[1] >= 1
    /\ quiet[1] < t
    /\ SameAsStandalone

\* C9: output spikes are 0 or 1 for every num_message_bits, hence among the
\* 2^k levels of k message bits; they are the spikes the feedback pathways
\* read, and those pathways are given no num_message_bits of their own.
C9_SpikeQuantization ==
    pc = "built" =>
        /\ \A i \in 1..N :
              /\ s_out[i] \in {0, 1}
              /\ s_out[i] < Pow2(dense.num_message_bits)
        /\ s_out = lif.s
        /\ ~dense_exc.nmb_given
        /\ ~dense_inh.nmb_given

\* A graded input spike of magnitude 3 makes a neuron emit the spike 1.
C9_Witness ==
    /\ pc = "built"
    /\ dense.num_message_bits = 2
    /\ \E i \in 1..N : s_in[i] = 3 /\ s_out[i] = 1

\* C10 as stated: du = 0 resets the current to the input at every step, and
\* du = 4095 retains the previous current all but entirely.
C10_DecayEndPointsAsStated ==
    [][t' = t + 1 =>
          \A i \in 1..N :
              /\ proc.du.init = 0 => lif'.u[i] = Total(a_in', i)
              /\ proc.du.init = 4095 =>
                    Abs(lif'.u[i] - Total(a_in', i) - lif.u[i]) <= 1]_vars

\* C10 as amended: du = 0 retains the previous current entirely, and
\* du = 4095 resets a current in 0..4095 to the input.
C10_DecayEndPoints ==
    [][t' = t + 1 =>
          \A i \in 1..N :
              /\ proc.du.init = 0 => lif'.u[i] = lif.u[i] + Total(a_in', i)
              /\ (proc.du.init = 4095 /\ lif.u[i] \in 0..4095) =>
                    lif'.u[i] = Total(a_in', i)]_vars

\* With du = 0 the current has grown beyond the input of the step.
C10_Witness ==
    /\ pc = "built"
    /\ proc.du.init = 0
    /\ t >= 2
    /\ \E i \in 1..N : Total(a_in, i) > 0 /\ lif.u[i] > Total(a_in, i)

---------------------------------------------------------------------------
(* Winner-take-all, under SpecWTA *)

Losers == (1..WtaN) \ {Winner}

\* The input current neuron i receives at every step.
Current(i) == kwargs.inp_weights.val[1][i]

\* From the tenth step on only the winner spikes, it has spiked within the
\* last five steps, and no other neuron's voltage is above 0.
WinnerTakesAll ==
    /\ \A j \in Losers : lif.s[j] = 0 /\ lif.v[j] <= 0
    /\ quiet[Winner] < 5

=============================================================================
